---- MODULE Spec2Model ----
(***************************************************************************)
(* The crowd-safety backend: src/backend/app/logic.py (history store, risk *)
(* classification, risk prediction, status aggregation) behind the two     *)
(* HTTP handlers of src/backend/app/main.py.                               *)
(*                                                                         *)
(* Numbers.  Counts are Python ints.  Every float the code computes is a   *)
(* multiple of 1/400 (a count over 200.0, plus half of an integer over     *)
(* 200.0), so a float d is represented by the integer 400*d: density 1.0   *)
(* is 400, the threshold 0.8 is 320, the threshold 0.5 is 200, and the     *)
(* trend threshold 2 on the mean of two differences is 4 on their sum.     *)
(***************************************************************************)
EXTENDS Integers, Sequences, FiniteSets, TLC

VARIABLES
    current_counts,    \* logic.py:8   dict source_id -> latest count
    density_history,   \* logic.py:9   dict source_id -> list of counts
    model,             \* logic.py:13-19  the loaded artifact, or NoModel
    now,               \* the last value datetime.utcnow() returned
    ingested,          \* history variable: every count ingested, per source
    response,          \* the response of the last HTTP request
    prev_response,     \* the response before it, kept across status reads
    reqs,              \* the ingest requests in progress, one per worker
    observed           \* the counts and windows the last status read used

vars == <<current_counts, density_history, model, now, ingested,
          response, prev_response, reqs, observed>>

----------------------------------------------------------------------------
(* Bounds of the model *)

\* readings ingested in all, in the specification Spec
MaxIngest == 3
\* readings ingested in all, in the specification SpecWindow
MaxWindowIngest == 11
\* readings ingested in all, in the specification SpecTrend
MaxTrendIngest == 4
\* the clock values datetime.utcnow() can return are 0..MaxClock
MaxClock == 1
\* ingest requests begun in all, in the specification SpecConc
MaxConcIngest == 2
\* readings of cam_01 already ingested when SpecConc starts, or none
PrefillLen == 9
\* readings ingested in all, in the specification SpecUnbound
MaxUnboundIngest == 3

\* source ids the ingest requests carry
SourceIds == {"cam_01", "cam_02"}
\* counts the ingest requests carry (schemas.py:8 accepts any int)
Counts == {-4, 96, 100, 101, 160, 161, 260}
\* counts of the long-history specification
WindowCounts == {90, 170}
\* counts of the trend specification: differences of 4 and 5 around the
\* trend threshold, and the readings 100, 150, 220, 260
TrendCounts == {96, 100, 101, 150, 220, 260}
\* counts of the concurrent specification
ConcCounts == {170, 250}
\* source ids that no zone is bound to, and the counts of SpecUnbound
UnboundSourceIds == {"cam_03"}
UnboundCounts == {96, 161, 260}
\* the threads of the server's pool that serve ingest requests
Workers == {"w1", "w2"}

----------------------------------------------------------------------------
(* Program constants and helpers *)

MAX_HISTORY == 10

NoModel == "None"
\* the artifacts that can sit at MODEL_PATH: the regression of
\* create_dummy_model.py, or an object whose predict() raises
ModelKinds == {"dummy", "broken"}

Min(a, b) == IF a < b THEN a ELSE b
Max(a, b) == IF a > b THEN a ELSE b

\* dict.get(key, default)
DictGet(d, key, default) == IF key \in DOMAIN d THEN d[key] ELSE default

\* dict[key] = value
DictSet(d, key, value) == (key :> value) @@ d

\* lst[-n:] for 0 < n
LastN(lst, n) ==
    IF Len(lst) <= n THEN lst ELSE SubSeq(lst, Len(lst) - n + 1, Len(lst))

RECURSIVE SumLen(_, _)
SumLen(f, S) ==
    IF S = {} THEN 0
    ELSE LET s == CHOOSE x \in S : TRUE
         IN Len(f[s]) + SumLen(f, S \ {s})

\* readings ingested so far, over all sources
TotalReadings == SumLen(ingested, DOMAIN ingested)

----------------------------------------------------------------------------
(* Ingestion: logic.py process_new_data, main.py post_ingest_data *)

\* AppendTrim with the slice taken from the wrong end, lst[:MAX_HISTORY]
AppendTrim_KeepOldest(hist, count) ==
    LET appended == Append(hist, count)
    IN IF Len(appended) > MAX_HISTORY
       THEN SubSeq(appended, 1, MAX_HISTORY)
       ELSE appended

\* the list process_new_data leaves in density_history[source]
AppendTrim(hist, count) ==
    LET appended == Append(hist, count)
    IN IF Len(appended) > MAX_HISTORY
       THEN LastN(appended, MAX_HISTORY)
       ELSE appended

\* process_new_data that records the latest count of known sources only
process_new_data_KnownOnly(source, count) ==
    /\ current_counts' =
           IF source \in DOMAIN density_history
           THEN DictSet(current_counts, source, count)
           ELSE current_counts
    /\ density_history' =
           DictSet(density_history, source,
                   AppendTrim(DictGet(density_history, source, <<>>), count))

\* process_new_data whose windows are all one shared list
process_new_data_Aliased(source, count) ==
    /\ current_counts' = DictSet(current_counts, source, count)
    /\ density_history' =
           [u \in DOMAIN density_history \cup {source} |->
               AppendTrim(DictGet(density_history, source, <<>>), count)]

\* process_new_data that files the readings of unbound sources under cam_02
process_new_data_Folded(source, count) ==
    LET key == IF source = "cam_01" THEN "cam_01" ELSE "cam_02"
    IN /\ current_counts' = DictSet(current_counts, key, count)
       /\ density_history' =
              DictSet(density_history, key,
                      AppendTrim(DictGet(density_history, key, <<>>), count))

process_new_data(source, count) ==
    /\ current_counts' = DictSet(current_counts, source, count)
    /\ density_history' =
           DictSet(density_history, source,
                   AppendTrim(DictGet(density_history, source, <<>>), count))

post_ingest_data(source, count) ==
    /\ process_new_data(source, count)
    /\ ingested' = DictSet(ingested, source,
                           Append(DictGet(ingested, source, <<>>), count))
    /\ response' = [kind |-> "ack", status |-> "ok", source_id |-> source]
    /\ prev_response' = [kind |-> "none"]
    /\ observed' = [kind |-> "none"]
    /\ UNCHANGED <<model, now, reqs>>

----------------------------------------------------------------------------
(* Ingestion by concurrent requests.  main.py declares post_ingest_data    *)
(* with def, so the server runs each request on a thread of its pool, and  *)
(* logic.py takes no lock: the statements of process_new_data of different *)
(* requests interleave.  Each statement is one step.                       *)

Idle == [pc |-> "idle", source |-> "", count |-> 0]

InFlight == Cardinality({w \in Workers : reqs[w].pc # "idle"})

Goto(w, label) == reqs' = [reqs EXCEPT ![w].pc = label]

\* main.py:7, logic.py:26-27: the request reaches a worker
BeginIngest(w, source, count) ==
    /\ reqs[w].pc = "idle"
    /\ reqs' = [reqs EXCEPT ![w] =
                   [pc |-> "write", source |-> source, count |-> count]]
    /\ UNCHANGED <<current_counts, density_history, model, now, ingested,
                   response, prev_response, observed>>

\* logic.py:28
WriteLatest(w) ==
    /\ reqs[w].pc = "write"
    /\ current_counts' = DictSet(current_counts, reqs[w].source, reqs[w].count)
    /\ Goto(w, "create")
    /\ UNCHANGED <<density_history, model, now, ingested, response,
                   prev_response, observed>>

\* logic.py:31-32
CreateWindow(w) ==
    /\ reqs[w].pc = "create"
    /\ density_history' =
           IF reqs[w].source \notin DOMAIN density_history
           THEN DictSet(density_history, reqs[w].source, <<>>)
           ELSE density_history
    /\ Goto(w, "append")
    /\ UNCHANGED <<current_counts, model, now, ingested, response,
                   prev_response, observed>>

\* logic.py:33
AppendCount(w) ==
    /\ reqs[w].pc = "append"
    /\ density_history' =
           DictSet(density_history, reqs[w].source,
                   Append(density_history[reqs[w].source], reqs[w].count))
    /\ Goto(w, "check")
    /\ UNCHANGED <<current_counts, model, now, ingested, response,
                   prev_response, observed>>

\* logic.py:34
CheckLength(w) ==
    /\ reqs[w].pc = "check"
    /\ IF Len(density_history[reqs[w].source]) > MAX_HISTORY
       THEN Goto(w, "slice")
       ELSE Goto(w, "ack")
    /\ UNCHANGED <<current_counts, density_history, model, now, ingested,
                   response, prev_response, observed>>

\* logic.py:35
SliceAssign(w) ==
    /\ reqs[w].pc = "slice"
    /\ density_history' =
           DictSet(density_history, reqs[w].source,
                   LastN(density_history[reqs[w].source], MAX_HISTORY))
    /\ Goto(w, "ack")
    /\ UNCHANGED <<current_counts, model, now, ingested, response,
                   prev_response, observed>>

\* main.py:12: the acknowledgement is returned
Acknowledge(w) ==
    /\ reqs[w].pc = "ack"
    /\ ingested' = DictSet(ingested, reqs[w].source,
                           Append(DictGet(ingested, reqs[w].source, <<>>),
                                  reqs[w].count))
    /\ response' = [kind |-> "ack", status |-> "ok",
                    source_id |-> reqs[w].source]
    /\ prev_response' = [kind |-> "none"]
    /\ observed' = [kind |-> "none"]
    /\ reqs' = [reqs EXCEPT ![w] = Idle]
    /\ UNCHANGED <<current_counts, density_history, model, now>>

----------------------------------------------------------------------------
(* Prediction: logic.py predict_future_risk *)

Raised == "raised"

\* model.predict([[prev_count]])[0]; create_dummy_model.py fits y = 2x
ModelRaises(m, prev_count) == m = "broken"
ModelPredict(m, prev_count) == 2 * prev_count

\* np.mean(np.diff(w[-3:])), times 2, for a list of at least 3 entries
TwiceMeanDiff(hist) ==
    LET w == LastN(hist, 3)
    IN (w[2] - w[1]) + (w[3] - w[2])

\* logic.py:56-62 on a predicted density
PredictedRisk(predicted_density) ==
    IF predicted_density > 320 THEN "high"
    ELSE IF predicted_density > 200 THEN "medium"
    ELSE "low"

\* TrendPrediction that predicts the current risk from a short history
TrendPrediction_ShortIsCurrent(zone_id, density) ==
    LET history == DictGet(density_history, zone_id, <<>>)
    IN IF Len(history) < 3 THEN PredictedRisk(density)
       ELSE PredictedRisk(Min(Max(density + TwiceMeanDiff(history), 0), 400))

\* TrendPrediction that adds the last difference instead of the mean
TrendPrediction_LastDiff(zone_id, density) ==
    LET history == DictGet(density_history, zone_id, <<>>)
        n == Len(history)
    IN IF n < 3 THEN "low"
       ELSE PredictedRisk(
                Min(Max(density + 2 * (history[n] - history[n - 1]), 0), 400))

\* TrendPrediction that subtracts the trend
TrendPrediction_SignFlipped(zone_id, density) ==
    LET history == DictGet(density_history, zone_id, <<>>)
    IN IF Len(history) < 3 THEN "low"
       ELSE PredictedRisk(Min(Max(density - TwiceMeanDiff(history), 0), 400))

\* logic.py:49-54, the trend-based branch
TrendPrediction(zone_id, density) ==
    LET history == DictGet(density_history, zone_id, <<>>)
    IN IF Len(history) < 3 THEN "low"
       ELSE PredictedRisk(Min(Max(density + TwiceMeanDiff(history), 0), 400))

\* ModelPrediction that answers low until the history has 3 entries
ModelPrediction_NeedsHistory(zone_id) ==
    LET hist == DictGet(density_history, zone_id, <<>>)
        prev_count == IF Len(hist) > 0 THEN hist[Len(hist)] ELSE 0
    IN IF ModelRaises(model, prev_count) THEN Raised
       ELSE IF Len(hist) < 3 THEN "low"
       ELSE PredictedRisk(
                Min(Max(2 * ModelPredict(model, prev_count), 0), 400))

\* logic.py:45-47, the model branch
ModelPrediction(zone_id) ==
    LET hist == DictGet(density_history, zone_id, <<>>)
        prev_count == IF Len(hist) > 0 THEN hist[Len(hist)] ELSE 0
    IN IF ModelRaises(model, prev_count) THEN Raised
       ELSE PredictedRisk(
                Min(Max(2 * ModelPredict(model, prev_count), 0), 400))

\* predict_future_risk that consults the model for every source
predict_future_risk_AnySource(zone_id, density) ==
    IF model # NoModel
    THEN ModelPrediction(zone_id)
    ELSE TrendPrediction(zone_id, density)

predict_future_risk(zone_id, density) ==
    IF model # NoModel /\ zone_id = "cam_01"
    THEN ModelPrediction(zone_id)
    ELSE TrendPrediction(zone_id, density)

----------------------------------------------------------------------------
(* Status: logic.py get_system_status, main.py get_status *)

\* min(count / 200.0, 1.0)
Density(count) == Min(2 * count, 400)

\* get_risk with an inclusive upper threshold
get_risk_Inclusive(d) ==
    IF d >= 320 THEN "high"
    ELSE IF d > 200 THEN "medium"
    ELSE "low"

get_risk(d) ==
    IF d > 320 THEN "high"
    ELSE IF d > 200 THEN "medium"
    ELSE "low"

\* get_trend with inclusive thresholds
get_trend_Inclusive(source_id) ==
    LET hist == DictGet(density_history, source_id, <<>>)
    IN IF Len(hist) < 3 THEN "stable"
       ELSE LET diff == TwiceMeanDiff(hist)
            IN IF diff >= 4 THEN "up"
               ELSE IF diff <= -4 THEN "down"
               ELSE "stable"

get_trend(source_id) ==
    LET hist == DictGet(density_history, source_id, <<>>)
    IN IF Len(hist) < 3 THEN "stable"
       ELSE LET diff == TwiceMeanDiff(hist)
            IN IF diff > 4 THEN "up"
               ELSE IF diff < -4 THEN "down"
               ELSE "stable"

ZoneStatus(zone_id, display_name, source_id, predicted) ==
    [zone_id |-> zone_id,
     display_name |-> display_name,
     density |-> Density(DictGet(current_counts, source_id, 0)),
     risk_level |-> get_risk(Density(DictGet(current_counts, source_id, 0))),
     predicted_risk_level |-> predicted,
     trend |-> get_trend(source_id)]

\* Alert1 with an id made unique by its timestamp
Alert1_UniqueId(t) ==
    [id |-> <<"alert_1", t>>, timestamp |-> t, zone_id |-> "gate_a",
     title |-> "High Risk at Main Gate A",
     message |-> "Crowd density critical. Please redirect flow."]

Alert1(t) ==
    [id |-> "alert_1", timestamp |-> t, zone_id |-> "gate_a",
     title |-> "High Risk at Main Gate A",
     message |-> "Crowd density critical. Please redirect flow."]

Alert2(t) ==
    [id |-> "alert_2", timestamp |-> t, zone_id |-> "stage_front",
     title |-> "High Risk at Stage Front",
     message |-> "High density detected. Manage access routes."]

\* Alerts that also fire on a predicted high risk
Alerts_OnPredicted(zone1, zone2, t1, t2) ==
    (IF zone1.risk_level = "high" \/ zone1.predicted_risk_level = "high"
     THEN <<Alert1(t1)>> ELSE <<>>)
    \o (IF zone2.risk_level = "high" \/ zone2.predicted_risk_level = "high"
        THEN <<Alert2(t2)>> ELSE <<>>)

\* Alerts built in the reverse order
Alerts_Reversed(zone1, zone2, t1, t2) ==
    (IF zone2.risk_level = "high" THEN <<Alert2(t2)>> ELSE <<>>)
    \o (IF zone1.risk_level = "high" THEN <<Alert1(t1)>> ELSE <<>>)

\* the alerts of logic.py:121-139; t1 and t2 are what the two calls of
\* datetime.utcnow() return when they are made
Alerts(zone1, zone2, t1, t2) ==
    (IF zone1.risk_level = "high" THEN <<Alert1(t1)>> ELSE <<>>)
    \o (IF zone2.risk_level = "high" THEN <<Alert2(t2)>> ELSE <<>>)

\* the value get_system_status returns, or an error when the model call of
\* logic.py:46 raises (nothing in logic.py or main.py catches it)
get_system_status(t1, t2) ==
    LET density_a == Density(DictGet(current_counts, "cam_01", 0))
        density_b == Density(DictGet(current_counts, "cam_02", 0))
        predicted_risk_a == predict_future_risk("cam_01", density_a)
        predicted_risk_b == predict_future_risk("cam_02", density_b)
        zone1 == ZoneStatus("gate_a", "Main Gate A", "cam_01",
                            predicted_risk_a)
        zone2 == ZoneStatus("stage_front", "Stage Front", "cam_02",
                            predicted_risk_b)
    IN IF predicted_risk_a = Raised \/ predicted_risk_b = Raised
       THEN [kind |-> "error"]
       ELSE [kind |-> "status",
             zones |-> <<zone1, zone2>>,
             alerts |-> Alerts(zone1, zone2, t1, t2)]

\* the clock after the call: the last value utcnow() returned in it
ClockAfter(result, t1, t2) ==
    IF result.kind # "status" \/ Len(result.alerts) = 0 THEN now
    ELSE result.alerts[Len(result.alerts)].timestamp

\* get_status whose reads create the missing windows (dict.setdefault)
get_status_SetDefault ==
    /\ \E t1 \in now..MaxClock : \E t2 \in t1..MaxClock :
          /\ response' = get_system_status(t1, t2)
          /\ now' = ClockAfter(get_system_status(t1, t2), t1, t2)
    /\ prev_response' = response
    /\ observed' = [kind |-> "read", counts |-> current_counts,
                    windows |-> density_history]
    /\ density_history' =
           [u \in DOMAIN density_history \cup {"cam_01", "cam_02"} |->
               DictGet(density_history, u, <<>>)]
    /\ UNCHANGED <<current_counts, model, ingested, reqs>>

get_status ==
    /\ \E t1 \in now..MaxClock : \E t2 \in t1..MaxClock :
          /\ response' = get_system_status(t1, t2)
          /\ now' = ClockAfter(get_system_status(t1, t2), t1, t2)
    /\ prev_response' = response
    /\ observed' = [kind |-> "read", counts |-> current_counts,
                    windows |-> density_history]
    /\ UNCHANGED <<current_counts, density_history, model, ingested, reqs>>

----------------------------------------------------------------------------
(* Specifications *)

Init ==
    /\ current_counts = <<>>
    /\ density_history = <<>>
    /\ model \in {NoModel} \cup ModelKinds
    /\ now = 0
    /\ ingested = <<>>
    /\ response = [kind |-> "none"]
    /\ prev_response = [kind |-> "none"]
    /\ reqs = [w \in Workers |-> Idle]
    /\ observed = [kind |-> "none"]

Ingest ==
    \E source \in SourceIds, count \in Counts :
        /\ TotalReadings < MaxIngest
        /\ post_ingest_data(source, count)

Next == Ingest \/ get_status

Spec == Init /\ [][Next]_vars

\* long histories: ingestion only, two counts, enough readings to trim
IngestWindow ==
    \E source \in SourceIds, count \in WindowCounts :
        /\ TotalReadings < MaxWindowIngest
        /\ post_ingest_data(source, count)

NextWindow == IngestWindow

SpecWindow == Init /\ [][NextWindow]_vars

\* trends: readings for cam_01 around the trend threshold, and status reads
IngestTrend ==
    \E count \in TrendCounts :
        /\ TotalReadings < MaxTrendIngest
        /\ post_ingest_data("cam_01", count)

NextTrend == IngestTrend \/ get_status

SpecTrend == Init /\ [][NextTrend]_vars

\* unbound sources: readings for cam_01, cam_02 and cam_03, status reads
IngestUnbound ==
    \E source \in SourceIds \cup UnboundSourceIds, count \in UnboundCounts :
        /\ TotalReadings < MaxUnboundIngest
        /\ post_ingest_data(source, count)

NextUnbound == IngestUnbound \/ get_status

SpecUnbound == Init /\ [][NextUnbound]_vars

\* concurrent requests: the state at start-up, or the one 9 readings of 90
\* for cam_01 lead to, then interleaved ingest requests and status reads
Prefill == [j \in 1..PrefillLen |-> 90]

InitConc ==
    /\ model \in {NoModel} \cup ModelKinds
    /\ now = 0
    /\ response = [kind |-> "none"]
    /\ prev_response = [kind |-> "none"]
    /\ reqs = [w \in Workers |-> Idle]
    /\ observed = [kind |-> "none"]
    /\ \/ /\ current_counts = <<>>
          /\ density_history = <<>>
          /\ ingested = <<>>
       \/ /\ current_counts = ("cam_01" :> 90)
          /\ density_history = ("cam_01" :> Prefill)
          /\ ingested = ("cam_01" :> Prefill)

\* the readings ingested before the start (no concurrent request carries 90)
Prefilled ==
    LET log == DictGet(ingested, "cam_01", <<>>)
    IN IF Len(log) >= PrefillLen /\ SubSeq(log, 1, PrefillLen) = Prefill
       THEN PrefillLen
       ELSE 0

\* ingest requests begun since the start
Begun == TotalReadings + InFlight - Prefilled

NextConc ==
    \/ \E w \in Workers :
          \/ \E source \in SourceIds, count \in ConcCounts :
                /\ Begun < MaxConcIngest
                /\ BeginIngest(w, source, count)
          \/ WriteLatest(w)
          \/ CreateWindow(w)
          \/ AppendCount(w)
          \/ CheckLength(w)
          \/ SliceAssign(w)
          \/ Acknowledge(w)
    \/ get_status

SpecConc == InitConc /\ [][NextConc]_vars

----------------------------------------------------------------------------
(* Claims *)

\* the zones of the static configuration, in order: zone id and source id
ZoneIds == <<"gate_a", "stage_front">>
ZoneSource == <<"cam_01", "cam_02">>
ZoneAlertId == <<"alert_1", "alert_2">>

IsStatus(r) == r.kind = "status"

\* C1: after every ingestion, for every source, the window has at most
\* MAX_HISTORY = 10 entries and is exactly the last min(n, 10) counts
\* ingested for that source, in arrival order, n being the number of
\* readings ingested for it.
C1_WindowIsLastReadings ==
    \A s \in DOMAIN ingested :
        LET n == Len(ingested[s])
            k == IF n < 10 THEN n ELSE 10
        IN /\ s \in DOMAIN density_history
           /\ Len(density_history[s]) <= 10
           /\ Len(density_history[s]) = k
           /\ \A i \in 1..k : density_history[s][i] = ingested[s][n - k + i]

\* a source whose window was trimmed, the dropped reading differing from
\* the one that follows it
C1_Witness ==
    \E s \in DOMAIN ingested :
        /\ Len(ingested[s]) > 10
        /\ ingested[s][1] # ingested[s][2]
        /\ Len(density_history[s]) = 10

\* C2: for every source ingested at least once, the latest count equals the
\* last element of the source's window, and a source has a latest count if
\* and only if it has a non-empty window.
C2_LatestIsLastOfWindow ==
    \A s \in SourceIds :
        /\ (s \in DOMAIN current_counts)
             <=> (s \in DOMAIN density_history /\ Len(density_history[s]) > 0)
        /\ s \in DOMAIN ingested =>
             /\ s \in DOMAIN current_counts
             /\ s \in DOMAIN density_history
             /\ current_counts[s] =
                    density_history[s][Len(density_history[s])]
             /\ current_counts[s] = ingested[s][Len(ingested[s])]

\* a trimmed window whose last two readings differ, next to a source that
\* has never been ingested
C2_Witness ==
    \E s \in DOMAIN ingested :
        /\ Len(ingested[s]) > 10
        /\ ingested[s][Len(ingested[s])] # ingested[s][Len(ingested[s]) - 1]
        /\ \E u \in SourceIds : u \notin DOMAIN current_counts

\* the alerts of a snapshot that name zone z
AlertsOf(r, z) == {j \in 1..Len(r.alerts) : r.alerts[j].zone_id = z}

\* C3: in every status snapshot there is exactly one alert for a zone if and
\* only if the zone's current risk level in that snapshot is high, with the
\* zone's id and the zone-specific alert id; a zone whose current risk is
\* low or medium has no alert, whatever its predicted risk level.
C3_AlertIffCurrentHigh ==
    IsStatus(response) =>
        /\ \A i \in 1..2 :
              LET zone == response.zones[i]
              IN /\ zone.risk_level = "high" =>
                        Cardinality(AlertsOf(response, zone.zone_id)) = 1
                 /\ zone.risk_level # "high" =>
                        AlertsOf(response, zone.zone_id) = {}
                 /\ \A j \in AlertsOf(response, zone.zone_id) :
                        response.alerts[j].id = ZoneAlertId[i]
        /\ \A j \in 1..Len(response.alerts) :
              \E i \in 1..2 : response.alerts[j].zone_id = ZoneIds[i]

\* a snapshot with an alert for one zone and none for the other, whose
\* predicted risk is high while its current risk is not
C3_Witness ==
    /\ IsStatus(response)
    /\ \E i, k \in 1..2 :
          /\ response.zones[i].risk_level = "high"
          /\ AlertsOf(response, ZoneIds[i]) # {}
          /\ response.zones[k].risk_level # "high"
          /\ response.zones[k].predicted_risk_level = "high"
          /\ AlertsOf(response, ZoneIds[k]) = {}

\* an alert without its timestamp
AlertBody(a) ==
    [id |-> a.id, zone_id |-> a.zone_id, title |-> a.title,
     message |-> a.message]

\* C4 as stated: two status reads with no ingestion in between return
\* identical output, alert timestamps included.
C4_Original ==
    (IsStatus(response) /\ IsStatus(prev_response)) =>
        response = prev_response

\* C4 as amended: two status reads with no ingestion in between return the
\* same zones with identical fields and the same alerts with identical id,
\* zone_id, title and message; the alert timestamps are the time of each
\* read and never decrease from one read to the next.
C4_IdempotentUpToTimestamp ==
    (IsStatus(response) /\ IsStatus(prev_response)) =>
        /\ response.zones = prev_response.zones
        /\ Len(response.alerts) = Len(prev_response.alerts)
        /\ \A j \in 1..Len(response.alerts) :
              /\ AlertBody(response.alerts[j])
                     = AlertBody(prev_response.alerts[j])
              /\ response.alerts[j].timestamp
                     >= prev_response.alerts[j].timestamp

\* two reads in a row of a state where both zones are at high risk, the
\* second one at a later time
C4_Witness ==
    /\ IsStatus(response) /\ IsStatus(prev_response)
    /\ Len(response.alerts) = 2
    /\ response.alerts[1].timestamp > prev_response.alerts[1].timestamp

\* a response to a status request, a snapshot or an error
IsStatusReply(r) == r.kind \in {"status", "error"}

\* the window and the latest count of a source, empty and 0 when unknown
WindowOf(s) == IF s \in DOMAIN density_history THEN density_history[s] ELSE <<>>
LatestOf(s) == IF s \in DOMAIN current_counts THEN current_counts[s] ELSE 0

\* the prediction of a source when no model is consulted, in counts: low
\* under 3 entries, else the thresholds on 400 times the predicted density
NoModelPrediction(s) ==
    LET w == WindowOf(s)
        n == Len(w)
        c == LatestOf(s)
        x == (IF 2 * c < 400 THEN 2 * c ELSE 400) + (w[n] - w[n - 2])
    IN IF n < 3 THEN "low"
       ELSE IF x > 320 THEN "high"
       ELSE IF x > 200 THEN "medium"
       ELSE "low"

\* C5 as stated: when a model is loaded and its invocation for cam_01
\* fails, the status request still returns a complete snapshot, whose
\* prediction for cam_01 is the one made with no model loaded.
C5_ModelFailureFallsBack ==
    (model = "broken" /\ IsStatusReply(response)) =>
        /\ IsStatus(response)
        /\ response.zones[1].predicted_risk_level
               = NoModelPrediction("cam_01")

\* C6 as stated: in every status snapshot, after any readings the schema
\* accepts, each zone's density lies in [0,1] and equals
\* min(latest_count/200, 1), the latest count being 0 for a source never
\* ingested.
C6_DensityInUnitInterval ==
    IsStatus(response) =>
        \A i \in 1..2 :
            LET c == LatestOf(ZoneSource[i])
            IN /\ response.zones[i].density >= 0
               /\ response.zones[i].density <= 400
               /\ response.zones[i].density
                      = (IF 2 * c < 400 THEN 2 * c ELSE 400)

\* the risk level of a count by the thresholds of the claim
LevelOfCount(c) ==
    IF c > 160 THEN "high" ELSE IF c > 100 THEN "medium" ELSE "low"

Rank(level) == IF level = "low" THEN 0 ELSE IF level = "medium" THEN 1 ELSE 2

\* C7: a zone's current risk level is high iff its latest count is above
\* 160, medium iff it is above 100 and at most 160, low otherwise (160 is
\* medium, 100 is low), hence non-decreasing in the count; the
\* classification of a predicted density uses the same thresholds.
C7_RiskThresholds ==
    /\ IsStatus(response) =>
          /\ \A i \in 1..2 :
                response.zones[i].risk_level
                    = LevelOfCount(LatestOf(ZoneSource[i]))
          /\ \A i, k \in 1..2 :
                LatestOf(ZoneSource[i]) <= LatestOf(ZoneSource[k]) =>
                    Rank(response.zones[i].risk_level)
                        <= Rank(response.zones[k].risk_level)
    /\ \A s \in DOMAIN current_counts :
          PredictedRisk(Density(current_counts[s]))
              = LevelOfCount(current_counts[s])

\* a snapshot with one zone at count 160 and the other at count 161, after
\* a reading of 100 or 101
C7_Witness ==
    /\ IsStatus(response)
    /\ {LatestOf("cam_01"), LatestOf("cam_02")} = {160, 161}
    /\ \E s \in DOMAIN ingested : ingested[s][1] \in {100, 101}
    /\ \E i, k \in 1..2 :
          /\ response.zones[i].risk_level = "medium"
          /\ response.zones[k].risk_level = "high"

\* C8: with a model loaded, the predicted risk of cam_02 is the one made
\* with no model loaded, for every history: only cam_01 consults the model.
C8_ModelOnlyForCam01 ==
    (model # NoModel /\ IsStatus(response)) =>
        response.zones[2].predicted_risk_level = NoModelPrediction("cam_02")

\* a snapshot made with the model loaded, in which cam_02 has a trend and a
\* prediction other than the model's (the model doubles 101 to 202, which
\* is high)
C8_Witness ==
    /\ model = "dummy"
    /\ IsStatus(response)
    /\ Len(WindowOf("cam_02")) >= 3
    /\ LatestOf("cam_02") = 101
    /\ response.zones[2].predicted_risk_level = "medium"

\* C9: for a source with 0, 1 or 2 history entries the trend label is
\* stable and, with no model loaded or for a source other than cam_01, the
\* predicted risk is low whatever the current density.
C9_ShortHistoryDefaults ==
    IsStatus(response) =>
        \A i \in 1..2 :
            Len(WindowOf(ZoneSource[i])) < 3 =>
                /\ response.zones[i].trend = "stable"
                /\ (model = NoModel \/ ZoneSource[i] # "cam_01") =>
                       response.zones[i].predicted_risk_level = "low"

\* a snapshot made with no model loaded, in which cam_01 has two entries
\* and a high current risk
C9_Witness ==
    /\ model = NoModel
    /\ IsStatus(response)
    /\ Len(WindowOf("cam_01")) = 2
    /\ response.zones[1].risk_level = "high"
    /\ response.zones[1].predicted_risk_level = "low"
    /\ response.zones[1].trend = "stable"

\* C10: for a source whose window w has at least 3 entries the trend label
\* is up iff the mean of w[-2]-w[-3] and w[-1]-w[-2], which is
\* (w[-1]-w[-3])/2, is above 2, down iff it is below -2, stable otherwise;
\* after the readings 100, 150, 220, 260 for cam_01 the mean is 55 and
\* gate_a reports trend up, current risk high and one alert.
C10_TrendLabel ==
    IsStatus(response) =>
        /\ \A i \in 1..2 :
              LET w == WindowOf(ZoneSource[i])
                  n == Len(w)
                  twice == (w[n - 1] - w[n - 2]) + (w[n] - w[n - 1])
              IN n >= 3 =>
                    /\ twice = w[n] - w[n - 2]
                    /\ response.zones[i].trend = "up" <=> twice > 4
                    /\ response.zones[i].trend = "down" <=> twice < -4
                    /\ response.zones[i].trend = "stable"
                           <=> (twice >= -4 /\ twice <= 4)
        /\ ingested = ("cam_01" :> <<100, 150, 220, 260>>) =>
              /\ (260 - 220) + (220 - 150) = 2 * 55
              /\ response.zones[1].trend = "up"
              /\ response.zones[1].risk_level = "high"
              /\ Cardinality(AlertsOf(response, "gate_a")) = 1
              /\ Len(response.alerts) = 1

\* the snapshot read after the readings 100, 150, 220, 260 for cam_01
C10_Witness ==
    /\ IsStatus(response)
    /\ ingested = ("cam_01" :> <<100, 150, 220, 260>>)
    /\ response.zones[1].trend = "up"
    /\ Len(response.alerts) = 1

\* C11: on the fallback path (no model loaded, or a source other than
\* cam_01) with at least 3 history entries, the predicted risk is the class
\* of clamp(current_density + delta/200, 0, 1): high iff
\* min(2c, 400) + (w[-1] - w[-3]) > 320, medium iff that sum is above 200
\* and at most 320, low otherwise, c being the latest count.
C11_FallbackPrediction ==
    IsStatus(response) =>
        \A i \in 1..2 :
            LET s == ZoneSource[i]
                w == WindowOf(s)
                n == Len(w)
                c == LatestOf(s)
                sum == (IF 2 * c < 400 THEN 2 * c ELSE 400) + (w[n] - w[n - 2])
                p == response.zones[i].predicted_risk_level
            IN (n >= 3 /\ (model = NoModel \/ s # "cam_01")) =>
                  /\ p = "high" <=> sum > 320
                  /\ p = "medium" <=> (sum > 200 /\ sum <= 320)
                  /\ p = "low" <=> sum <= 200
                  /\ response.zones[i].density
                         = (IF 2 * c < 400 THEN 2 * c ELSE 400)

\* a snapshot made with no model loaded in which cam_01, at medium risk
\* with a rising window of 3 entries, is predicted high
C11_Witness ==
    /\ model = NoModel
    /\ IsStatus(response)
    /\ Len(WindowOf("cam_01")) >= 3
    /\ response.zones[1].risk_level = "medium"
    /\ response.zones[1].predicted_risk_level = "high"

\* C12: when a model is loaded and its invocation succeeds, the predicted
\* risk of cam_01 is the class of min(max(model(p)/200, 0), 1), p being the
\* most recent recorded count of cam_01 (0 with no history), whatever the
\* other window entries, the current density and the history length.
C12_ModelPrediction ==
    (IsStatus(response) /\ model # NoModel) =>
        LET w == WindowOf("cam_01")
            p == IF Len(w) = 0 THEN 0 ELSE w[Len(w)]
            m == ModelPredict(model, p)
            d == IF m < 0 THEN 0 ELSE IF m > 200 THEN 200 ELSE m
        IN response.zones[1].predicted_risk_level
               = (IF d > 160 THEN "high" ELSE IF d > 100 THEN "medium"
                  ELSE "low")

\* a snapshot made with the model loaded in which cam_01 has fewer than 3
\* entries, a low current risk and a high predicted risk
C12_Witness ==
    /\ model = "dummy"
    /\ IsStatus(response)
    /\ Len(WindowOf("cam_01")) \in {1, 2}
    /\ response.zones[1].risk_level = "low"
    /\ response.zones[1].predicted_risk_level = "high"

\* C13 as stated: for a zone whose source has never been ingested, a status
\* request does not fail and reports density 0, risk low, trend stable and
\* no alert for the zone, and a low predicted risk when no model is loaded.
C13_UnknownSourceDefaults ==
    IsStatusReply(response) =>
        \A i \in 1..2 :
            ZoneSource[i] \notin DOMAIN ingested =>
                /\ IsStatus(response)
                /\ response.zones[i].density = 0
                /\ response.zones[i].risk_level = "low"
                /\ response.zones[i].trend = "stable"
                /\ AlertsOf(response, ZoneIds[i]) = {}
                /\ model = NoModel =>
                       response.zones[i].predicted_risk_level = "low"

\* C15: every status snapshot lists exactly the zones gate_a (bound to
\* cam_01) and stage_front (bound to cam_02), in this order, and the alerts
\* come in the same order: an alert for gate_a precedes one for stage_front.
C15_ZoneAndAlertOrder ==
    IsStatus(response) =>
        /\ Len(response.zones) = 2
        /\ response.zones[1].zone_id = "gate_a"
        /\ response.zones[2].zone_id = "stage_front"
        /\ response.zones[1].risk_level = LevelOfCount(LatestOf("cam_01"))
        /\ response.zones[2].risk_level = LevelOfCount(LatestOf("cam_02"))
        /\ \A j, k \in 1..Len(response.alerts) :
              (/\ response.alerts[j].zone_id = "gate_a"
               /\ response.alerts[k].zone_id = "stage_front") => j < k

\* a snapshot with an alert for each zone, in the order of the zones,
\* cam_01 being at 260 and cam_02 at 161
C15_Witness ==
    /\ IsStatus(response)
    /\ Len(response.alerts) = 2
    /\ response.alerts[1].zone_id = "gate_a"
    /\ response.alerts[2].zone_id = "stage_front"
    /\ LatestOf("cam_01") = 260
    /\ LatestOf("cam_02") = 161

\* the counts ingested for a source are all non-negative
NonNegative(s) ==
    s \in DOMAIN ingested =>
        \A j \in 1..Len(ingested[s]) : ingested[s][j] >= 0

\* C20: with no model loaded and non-negative counts, a zone whose trend is
\* up, or whose trend delta is at least 0 with 3 or more history entries,
\* has a predicted risk never lower than its current risk; when the delta
\* is at most 0 the predicted risk is never higher than the current risk.
C20_PredictionFollowsTrend ==
    (IsStatus(response) /\ model = NoModel) =>
        \A i \in 1..2 :
            LET s == ZoneSource[i]
                w == WindowOf(s)
                n == Len(w)
                delta2 == w[n] - w[n - 2]
                cur == Rank(response.zones[i].risk_level)
                pred == Rank(response.zones[i].predicted_risk_level)
            IN NonNegative(s) =>
                  /\ response.zones[i].trend = "up" => pred >= cur
                  /\ (n >= 3 /\ delta2 >= 0) => pred >= cur
                  /\ (n >= 3 /\ delta2 <= 0) => pred <= cur

\* a snapshot made with no model loaded in which a zone with a falling
\* window is at medium risk and predicted low, the other zone rising
C20_Witness ==
    /\ model = NoModel
    /\ IsStatus(response)
    /\ \E i \in 1..2 :
          /\ NonNegative(ZoneSource[i])
          /\ response.zones[i].trend = "down"
          /\ response.zones[i].risk_level = "medium"
          /\ response.zones[i].predicted_risk_level = "low"

\* occurrences of a value in a list
Occurrences(lst, v) == Cardinality({j \in 1..Len(lst) : lst[j] = v})

\* C16 as stated: when ingest requests for the same source run
\* concurrently, once all have completed the latest count equals the last
\* element of the window, the window has at most MAX_HISTORY entries, and
\* no acknowledged count is missing from it unless MAX_HISTORY later counts
\* were appended after it (here: every count of a concurrent request is in
\* the window as often as it was acknowledged).
C16_ConcurrentIngestConsistent ==
    InFlight = 0 =>
        \A s \in DOMAIN ingested :
            /\ s \in DOMAIN current_counts
            /\ s \in DOMAIN density_history
            /\ Len(density_history[s]) <= 10
            /\ Len(density_history[s]) > 0
            /\ current_counts[s] = density_history[s][Len(density_history[s])]
            /\ \A v \in ConcCounts :
                  Occurrences(density_history[s], v)
                      = Occurrences(ingested[s], v)

\* C17 as stated: a status read that runs while an ingestion for the same
\* source is in progress uses a latest count equal to the last element of
\* the window it uses, and a window of at most MAX_HISTORY entries.
C17_ConcurrentReadConsistent ==
    observed.kind = "read" =>
        \A s \in SourceIds :
            /\ s \in DOMAIN observed.counts =>
                  /\ s \in DOMAIN observed.windows
                  /\ Len(observed.windows[s]) > 0
                  /\ observed.counts[s]
                         = observed.windows[s][Len(observed.windows[s])]
            /\ s \in DOMAIN observed.windows =>
                  Len(observed.windows[s]) <= 10

\* C14: a status read never mutates the history store: the latest counts,
\* the windows and the set of known sources are the same after it, and no
\* entry is created for an unknown source.
C14_ReadDoesNotMutate ==
    [][observed'.kind = "read" =>
          /\ current_counts' = current_counts
          /\ density_history' = density_history
          /\ DOMAIN density_history' = DOMAIN ingested
          /\ DOMAIN current_counts' = DOMAIN ingested]_vars

\* two status reads in a row while cam_01 is known and cam_02 is not
C14_Witness ==
    /\ observed.kind = "read"
    /\ IsStatus(response) /\ IsStatus(prev_response)
    /\ "cam_01" \in DOMAIN density_history
    /\ "cam_02" \notin DOMAIN density_history
    /\ "cam_02" \notin DOMAIN current_counts

ZoneNames == <<"Main Gate A", "Stage Front">>

\* the ZoneStatus of zone i in the current state
ZoneView(i) ==
    ZoneStatus(ZoneIds[i], ZoneNames[i], ZoneSource[i],
               predict_future_risk(
                   ZoneSource[i],
                   Density(DictGet(current_counts, ZoneSource[i], 0))))

\* a reading for source s was ingested in this step
IngestedFor(s) ==
    DictGet(ingested', s, <<>>) # DictGet(ingested, s, <<>>)

\* C18: ingesting a reading for source s changes only the latest count and
\* the window of s; the acknowledgement echoes s; the ZoneStatus of the
\* zone bound to another source is unchanged.
C18_IngestFrame ==
    [][\A s \in SourceIds :
          IngestedFor(s) =>
              /\ response'.kind = "ack"
              /\ response'.source_id = s
              /\ current_counts'[s] = ingested'[s][Len(ingested'[s])]
              /\ \A u \in SourceIds \ {s} :
                    /\ (u \in DOMAIN current_counts')
                           <=> (u \in DOMAIN current_counts)
                    /\ (u \in DOMAIN density_history')
                           <=> (u \in DOMAIN density_history)
                    /\ DictGet(current_counts', u, 0)
                           = DictGet(current_counts, u, 0)
                    /\ DictGet(density_history', u, <<>>)
                           = DictGet(density_history, u, <<>>)
              /\ \A i \in 1..2 :
                    ZoneSource[i] # s => ZoneView(i)' = ZoneView(i)]_vars

\* the state after a reading for cam_02 that differs from the two readings
\* cam_01 already has
C18_Witness ==
    /\ response.kind = "ack"
    /\ response.source_id = "cam_02"
    /\ "cam_01" \in DOMAIN ingested
    /\ Len(ingested["cam_01"]) = 2
    /\ current_counts["cam_02"] # current_counts["cam_01"]
    /\ density_history["cam_01"] = ingested["cam_01"]

\* the status snapshot of the current state, timestamps aside
SnapshotView == get_system_status(0, 0)

\* C19: a reading for a source bound to no zone is accepted and stored in
\* the history store, and the zones and alerts of the status snapshot,
\* timestamps aside, are the same before and after it.
C19_UnboundSourceInvisible ==
    [][\A s \in UnboundSourceIds :
          IngestedFor(s) =>
              /\ response'.kind = "ack"
              /\ response'.source_id = s
              /\ s \in DOMAIN current_counts'
              /\ s \in DOMAIN density_history'
              /\ current_counts'[s] = ingested'[s][Len(ingested'[s])]
              /\ density_history'[s] = ingested'[s]
              /\ SnapshotView' = SnapshotView]_vars

\* the state after a reading of 260 for cam_03 while cam_01 is at low risk
C19_Witness ==
    /\ response.kind = "ack"
    /\ response.source_id = "cam_03"
    /\ "cam_03" \in DOMAIN current_counts
    /\ current_counts["cam_03"] = 260
    /\ "cam_01" \in DOMAIN current_counts
    /\ current_counts["cam_01"] = 96
    /\ SnapshotView.kind = "status"
    /\ SnapshotView.alerts = <<>>

----------------------------------------------------------------------------
TypeOK ==
    /\ DOMAIN current_counts \subseteq SourceIds
    /\ DOMAIN density_history = DOMAIN current_counts
    /\ response.kind \in {"none", "ack", "status", "error"}
    /\ now \in 0..MaxClock

====
